---- MODULE Spec2Model ----
(***************************************************************************)
(* A model of the ContentEditable mixin of canvas-editor                   *)
(* (addon/mixins/content-editable.js): one editable block, its DOM         *)
(* element, the render-suppression guard and the DOM event handlers.       *)
(*                                                                         *)
(* Text is a sequence of characters.  The handlers run to completion one   *)
(* at a time; the steps of a handler are the values of pc, and while a     *)
(* handler runs only its own next step is enabled.  The observer of        *)
(* block.content fires synchronously inside the write that changes it.     *)
(***************************************************************************)
EXTENDS Integers, Sequences, FiniteSets, TLC

VARIABLES
  isFirefox,               \* window.navigator.userAgent includes 'Firefox'
  block,                   \* the block: [content, lastContent]
  element,                 \* the element's childNodes
  isUpdatingBlockContent,  \* the render-suppression guard
  pc,                      \* the position of the running handler
  evt,                     \* the event being handled; handler is the case of
                           \* keyDown's switch it fell into
  selection,               \* the browser selection the handler read
  split,                   \* the TextSplit snapshot the handler took
  clientRects,             \* element.getClientRects() as the handler read it
  currentRangeRect,        \* the selection rectangle the handler read
  call,                    \* the pending call of setBlockContentFromInput
  calls,                   \* host callbacks invoked during this event, in order
  renderCalls,             \* runs of renderBlockContent during this event
  domWrites                \* writes of the element by renderBlockContent

vars == <<isFirefox, block, element, isUpdatingBlockContent, pc, evt, selection,
          split, clientRects, currentRangeRect, call, calls, renderCalls,
          domWrites>>

-----------------------------------------------------------------------------
(* Bounds and input sets *)

MaxLen == 2

Threshold == 10

Chars == {"a", "\n"}

RECURSIVE StringsOfLen(_)
StringsOfLen(n) ==
  IF n = 0 THEN {<<>>}
  ELSE {Append(s, c) : s \in StringsOfLen(n - 1), c \in Chars}

Strings == UNION {StringsOfLen(n) : n \in 0..MaxLen}

\* JavaScript's undefined, as a value no string equals
Undefined == <<"undefined">>

Truthy(s) == s # Undefined /\ s # <<>>

-----------------------------------------------------------------------------
(* The DOM element *)

BR == [nodeName |-> "BR", data |-> <<>>]

TextNode(s) == [nodeName |-> "#text", data |-> s]

RECURSIVE innerText(_)
innerText(nodes) ==
  IF nodes = <<>> THEN <<>>
  ELSE (IF Head(nodes).nodeName = "BR" THEN <<"\n">> ELSE Head(nodes).data)
       \o innerText(Tail(nodes))

RECURSIVE textContent(_)
textContent(nodes) ==
  IF nodes = <<>> THEN <<>>
  ELSE Head(nodes).data \o textContent(Tail(nodes))

\* text.replace(/\n$/, '')
StripTrailingNewline(text) ==
  IF Len(text) > 0 /\ text[Len(text)] = "\n"
  THEN SubSeq(text, 1, Len(text) - 1)
  ELSE text

getElementText(nodes, firefox) ==
  IF Len(nodes) = 1 /\ nodes[1].nodeName = "BR" THEN <<>>
  ELSE LET text == IF innerText(nodes) # <<>> THEN innerText(nodes)
                   ELSE textContent(nodes)
       IN  IF firefox THEN StripTrailingNewline(text) ELSE text

\* The element's childNodes after the user edited it in place
DomShapes ==
  {<<>>, <<BR>>}
  \cup {<<TextNode(s)>> : s \in Strings \ {<<>>}}
  \cup {<<TextNode(s), BR>> : s \in Strings \ {<<>>}}

-----------------------------------------------------------------------------
(* The collaborators the mixin reads: selection, text split, geometry *)

NoSelection == [start |-> -1, end |-> -1]

\* The selections the browser can hold inside the element's text
Selections(nodes) ==
  {sel \in [start : 0..Len(textContent(nodes)), end : 0..Len(textContent(nodes))] :
     sel.start <= sel.end}

isCollapsed(sel) == sel.start = sel.end

NoSplit == [textBeforeSelection |-> Undefined, textAfterSelection |-> Undefined]

\* TextManipulation.getManipulation(element)
getManipulation(nodes, sel) ==
  LET text == textContent(nodes)
  IN  [textBeforeSelection |-> SubSeq(text, 1, sel.start),
       textAfterSelection  |-> SubSeq(text, sel.end + 1, Len(text))]

NoRect == [present |-> FALSE, top |-> 0, bottom |-> 0]

Rect(t, b) == [present |-> TRUE, top |-> t, bottom |-> b]

\* The height of a rendered line box
LineHeight == 20

\* element.getClientRects(): one rectangle per rendered line box
Layouts ==
  {<<Rect(0, LineHeight)>>,
   <<Rect(0, LineHeight), Rect(LineHeight, 2 * LineHeight)>>}

getElementRect(rects, side) ==
  IF side = "top" THEN rects[1] ELSE rects[Len(rects)]

\* Tops of the selection rectangle: above the element's first line, and around
\* the threshold below it
RangeTops == {-1} \cup ((Threshold - 1)..(Threshold + 1))

\* currentRangeRect: the rectangle of a caret one line high, or absent
RangeRects == {Rect(t, t + LineHeight) : t \in RangeTops} \cup {NoRect}

-----------------------------------------------------------------------------
(* Events *)

NoKey == ""

\* (key, keyCode) of the keydown events a browser delivers: current browsers
\* name the key, older ones leave key absent or name the arrows Left, Up, ...
KeyEvents ==
  {<<"ArrowLeft", 37>>, <<"ArrowUp", 38>>, <<"ArrowRight", 39>>,
   <<"ArrowDown", 40>>, <<"Backspace", 8>>, <<"Enter", 13>>, <<"a", 65>>}
  \cup {<<NoKey, c>> : c \in {37, 38, 39, 40, 8, 13, 65}}
  \cup {<<"Left", 37>>, <<"Up", 38>>, <<"Right", 39>>, <<"Down", 40>>}

NoEvent ==
  [type |-> "none", key |-> NoKey, keyCode |-> 0, shiftKey |-> FALSE,
   handler |-> "none", defaultPrevented |-> FALSE, propagationStopped |-> FALSE,
   threw |-> FALSE, inserted |-> Undefined]

Event(type, key, keyCode, shiftKey) ==
  [NoEvent EXCEPT !.type = type, !.key = key, !.keyCode = keyCode,
                  !.shiftKey = shiftKey]

stopPropagation(e) == [e EXCEPT !.propagationStopped = TRUE]

preventDefault(e) == [e EXCEPT !.defaultPrevented = TRUE]

\* evt.stopPropagation(); evt.preventDefault();
Suppress(e) == preventDefault(stopPropagation(e))

BlockRef == "block"

\* One invocation of a host callback
Call(name, text, rect) ==
  [name |-> name, block |-> BlockRef, text |-> text, rect |-> rect]

\* A callback of the host that is not handed the block
Notify(name, text) ==
  [name |-> name, block |-> "none", text |-> text, rect |-> NoRect]

NoCall == [content |-> Undefined, preventRerender |-> FALSE, caller |-> "none"]

-----------------------------------------------------------------------------
(* Initial state: the component is constructed, its element not yet inserted *)

Init ==
  /\ isFirefox \in BOOLEAN
  /\ block \in [content : Strings \cup {Undefined}, lastContent : {Undefined}]
  /\ element = <<>>
  /\ isUpdatingBlockContent = FALSE
  /\ pc = "unmounted"
  /\ evt = NoEvent
  /\ selection = NoSelection
  /\ split = NoSplit
  /\ clientRects = <<>>
  /\ currentRangeRect = NoRect
  /\ call = NoCall
  /\ calls = <<>>
  /\ renderCalls = 0
  /\ domWrites = 0

\* A new event arrives: what the previous one left behind is forgotten
BeginEvent(e) ==
  /\ evt' = e
  /\ calls' = <<>>
  /\ renderCalls' = 0
  /\ domWrites' = 0
  /\ selection' = NoSelection
  /\ split' = NoSplit
  /\ clientRects' = <<>>
  /\ currentRangeRect' = NoRect

-----------------------------------------------------------------------------
(* Render reconciliation *)

\* A faulty render that writes the placeholder whatever the content
renderedAlwaysPlaceholder(content) == <<BR>>

\* The childNodes renderBlockContent leaves: this.$().text(content) or
\* this.$().html('<br>')
Rendered(content) ==
  IF Truthy(content) THEN <<TextNode(content)>> ELSE <<BR>>

\* A faulty render that always takes itself to be suppressed
renderSkippedAlways(guard) == TRUE

\* if (this.get('isUpdatingBlockContent')) return;
renderSkipped(guard) == guard

\* One run of renderBlockContent with block.content = content
renderBlockContent(content) ==
  /\ renderCalls' = renderCalls + 1
  /\ IF renderSkipped(isUpdatingBlockContent)
     THEN UNCHANGED <<element, domWrites>>
     ELSE /\ element' = Rendered(content)
          /\ domWrites' = domWrites + 1

\* this.set('block.content', content): the observer of block.content runs
\* inside the write, and only when the value changes
setContent(content) ==
  /\ block' = [block EXCEPT !.content = content]
  /\ IF block.content # content
     THEN renderBlockContent(content)
     ELSE UNCHANGED <<element, renderCalls, domWrites>>

-----------------------------------------------------------------------------
(* Mount, edits made outside the handlers *)

\* on('didInsertElement'): the first render
didInsertElement ==
  /\ pc = "unmounted"
  /\ evt' = Event("didInsertElement", NoKey, 0, FALSE)
  /\ renderBlockContent(block.content)
  /\ pc' = "done"
  /\ UNCHANGED <<isFirefox, block, isUpdatingBlockContent, selection, split,
                 clientRects, currentRangeRect, call, calls>>

\* The user changes the element in place (typing, deleting, the default action
\* of a key): the browser then delivers an input event
userEdit ==
  /\ pc = "idle"
  /\ \E nodes \in DomShapes \ {element} : element' = nodes
  /\ pc' = "inputPending"
  /\ UNCHANGED <<isFirefox, block, isUpdatingBlockContent, evt, selection, split,
                 clientRects, currentRangeRect, call, calls, renderCalls,
                 domWrites>>

\* The host (or anything else holding the block) is about to write block.content
externalWriteBegins ==
  /\ pc = "idle"
  /\ BeginEvent(Event("externalWrite", NoKey, 0, FALSE))
  /\ call' = NoCall
  /\ pc' = "externalWrite"
  /\ UNCHANGED <<isFirefox, block, element, isUpdatingBlockContent>>

externalWrite ==
  /\ pc = "externalWrite"
  /\ \E content \in Strings \ {block.content} : setContent(content)
  /\ pc' = "done"
  /\ UNCHANGED <<isFirefox, isUpdatingBlockContent, evt, selection, split,
                 clientRects, currentRangeRect, call, calls>>

-----------------------------------------------------------------------------
(* input *)

\* A faulty input handler that lets the render run
inputCallUnguarded(text) ==
  [content |-> text, preventRerender |-> FALSE, caller |-> "input"]

\* this.setBlockContentFromInput(text);  (preventRerender = true by default)
inputCall(text) ==
  [content |-> text, preventRerender |-> TRUE, caller |-> "input"]

input ==
  /\ pc = "inputPending"
  /\ BeginEvent(Event("input", NoKey, 0, FALSE))
  /\ call' = inputCall(getElementText(element, isFirefox))
  /\ pc' = "sbc:guard"
  /\ UNCHANGED <<isFirefox, block, element, isUpdatingBlockContent>>

-----------------------------------------------------------------------------
(* keyDown: the dispatch table *)

\* evt.originalEvent.key || evt.originalEvent.keyCode
switchValue(key, keyCode) ==
  IF key # NoKey THEN [isString |-> TRUE, string |-> key, number |-> 0]
  ELSE [isString |-> FALSE, string |-> "", number |-> keyCode]

\* case 'name': case code:  (the switch compares with ===)
caseMatches(v, name, code) ==
  (v.isString /\ v.string = name) \/ (~v.isString /\ v.number = code)

\* The case of the switch the event falls into
dispatch(key, keyCode) ==
  LET v == switchValue(key, keyCode)
  IN  IF caseMatches(v, "ArrowLeft", 37) THEN "navigateLeft"
      ELSE IF caseMatches(v, "ArrowUp", 38) THEN "navigateUp"
      ELSE IF caseMatches(v, "ArrowRight", 39) THEN "navigateRight"
      ELSE IF caseMatches(v, "ArrowDown", 40) THEN "navigateDown"
      ELSE IF caseMatches(v, "Backspace", 8) THEN "backspace"
      ELSE IF caseMatches(v, "Enter", 13) THEN "Enter"
      ELSE "none"

\* A faulty Enter case without the Shift test
enterNeverReturns(shiftKey) == FALSE

\* if (evt.shiftKey) return;
enterReturns(shiftKey) == shiftKey

\* A faulty Enter case that suppresses the event before it tests Shift
enterSuppressesFirst(e, shiftKey) == Suppress(e)

\* The event as the Enter case leaves it:
\* if (evt.shiftKey) return; evt.stopPropagation(); evt.preventDefault();
enterEvent(e, shiftKey) == IF enterReturns(shiftKey) THEN e ELSE Suppress(e)

keyDown ==
  /\ pc = "idle"
  /\ \E k \in KeyEvents, shiftKey \in BOOLEAN :
       LET h == dispatch(k[1], k[2])
           e == [Event("keydown", k[1], k[2], shiftKey) EXCEPT !.handler = h]
       IN  IF h = "none" THEN BeginEvent(e) /\ pc' = "done"
           ELSE IF h # "Enter" THEN BeginEvent(e) /\ pc' = h
           ELSE /\ BeginEvent(enterEvent(e, shiftKey))
                /\ pc' = IF enterReturns(shiftKey) THEN "done" ELSE "newBlockAtSplit"
  /\ call' = NoCall
  /\ UNCHANGED <<isFirefox, block, element, isUpdatingBlockContent>>

-----------------------------------------------------------------------------
(* paste *)

\* document.execCommand('insertText', false, text): the text replaces the
\* selection; the browser chooses the child nodes that hold the new text
paste ==
  /\ pc = "idle"
  /\ \E text \in Strings, sel \in Selections(element) :
       LET m == getManipulation(element, sel)
           after == m.textBeforeSelection \o text \o m.textAfterSelection
           changed == text # <<>> \/ ~isCollapsed(sel)
       IN  /\ Len(after) <= MaxLen
           /\ BeginEvent([preventDefault(Event("paste", NoKey, 0, FALSE))
                            EXCEPT !.inserted = text])
           /\ IF changed
              THEN /\ \E nodes \in DomShapes :
                        textContent(nodes) = after /\ element' = nodes
                   /\ pc' = "inputPending"
              ELSE /\ pc' = "done"
                   /\ UNCHANGED element
  /\ call' = NoCall
  /\ UNCHANGED <<isFirefox, block, isUpdatingBlockContent>>

-----------------------------------------------------------------------------
(* The key handlers *)

\* What a handler leaves alone once it has read the selection and decided
HandlerFrame ==
  UNCHANGED <<isFirefox, block, element, isUpdatingBlockContent, clientRects,
              currentRangeRect, call, renderCalls, domWrites>>

\* A faulty backspace test that forgets the selection: it deletes the block
\* although a range is selected
backspaceIgnoresSelection(m, sel) == Truthy(m.textBeforeSelection)

\* if (textBeforeSelection || !this.get('selection.isCollapsed')) return;
backspaceReturns(m, sel) ==
  Truthy(m.textBeforeSelection) \/ ~isCollapsed(sel)

backspace ==
  /\ pc = "backspace"
  /\ \E sel \in Selections(element) :
       LET m == getManipulation(element, sel)
       IN  /\ selection' = sel
           /\ split' = m
           /\ IF backspaceReturns(m, sel)
              THEN UNCHANGED <<evt, calls>>
              ELSE /\ evt' = Suppress(evt)
                   /\ calls' = Append(calls, Call("onBlockDeletedLocally",
                                                  m.textAfterSelection, NoRect))
  /\ pc' = "done"
  /\ HandlerFrame

\* A faulty ArrowLeft test that looks at the text on the wrong side
navigateLeftLooksRight(m) == Truthy(m.textAfterSelection)

\* if (textBeforeSelection) return;
navigateLeftReturns(m) == Truthy(m.textBeforeSelection)

navigateLeft ==
  /\ pc = "navigateLeft"
  /\ \E sel \in Selections(element) :
       LET m == getManipulation(element, sel)
       IN  /\ selection' = sel
           /\ split' = m
           /\ IF navigateLeftReturns(m)
              THEN UNCHANGED <<evt, calls>>
              ELSE /\ evt' = Suppress(evt)
                   /\ calls' = Append(calls, Call("onNavigateLeft", Undefined, NoRect))
  /\ pc' = "done"
  /\ HandlerFrame

\* A faulty ArrowRight test that looks at the text on the wrong side
navigateRightLooksLeft(m) == Truthy(m.textBeforeSelection)

\* if (textAfterSelection) return;
navigateRightReturns(m) == Truthy(m.textAfterSelection)

navigateRight ==
  /\ pc = "navigateRight"
  /\ \E sel \in Selections(element) :
       LET m == getManipulation(element, sel)
       IN  /\ selection' = sel
           /\ split' = m
           /\ IF navigateRightReturns(m)
              THEN UNCHANGED <<evt, calls>>
              ELSE /\ evt' = Suppress(evt)
                   /\ calls' = Append(calls, Call("onNavigateRight", Undefined, NoRect))
  /\ pc' = "done"
  /\ HandlerFrame

\* What a handler leaves alone once it has read the geometry and decided
GeometryFrame ==
  UNCHANGED <<isFirefox, block, element, isUpdatingBlockContent, selection,
              split, call, renderCalls, domWrites>>

\* const distanceFromTop = rangeRect.top - contentTop;
distanceFromTop(rects, rangeRect) ==
  rangeRect.top - getElementRect(rects, "top").top

\* const distanceFromBottom = contentBottom - rangeRect.bottom;
distanceFromBottom(rects, rangeRect) ==
  getElementRect(rects, "bottom").bottom - rangeRect.bottom

\* A faulty ArrowUp test that is off by one at the threshold
navigateUpReturnsAtThreshold(distance) == distance >= Threshold

\* if (distanceFromTop > 10) return;
navigateUpReturns(distance) == distance > Threshold

\* if (distanceFromBottom > 10) return;
navigateDownReturns(distance) == distance > Threshold

\* Reading .top or .bottom of an absent rangeRect throws a TypeError, which
\* ends the handler
navigateUp ==
  /\ pc = "navigateUp"
  /\ \E rects \in Layouts :
       \E rangeRect \in RangeRects :
         /\ clientRects' = rects
         /\ currentRangeRect' = rangeRect
         /\ IF ~rangeRect.present
            THEN evt' = [evt EXCEPT !.threw = TRUE] /\ UNCHANGED calls
            ELSE IF navigateUpReturns(distanceFromTop(rects, rangeRect))
            THEN UNCHANGED <<evt, calls>>
            ELSE /\ evt' = Suppress(evt)
                 /\ calls' = Append(calls, Call("onNavigateUp", Undefined, rangeRect))
  /\ pc' = "done"
  /\ GeometryFrame

navigateDown ==
  /\ pc = "navigateDown"
  /\ \E rects \in Layouts :
       \E rangeRect \in RangeRects :
         /\ clientRects' = rects
         /\ currentRangeRect' = rangeRect
         /\ IF ~rangeRect.present
            THEN evt' = [evt EXCEPT !.threw = TRUE] /\ UNCHANGED calls
            ELSE IF navigateDownReturns(distanceFromBottom(rects, rangeRect))
            THEN UNCHANGED <<evt, calls>>
            ELSE /\ evt' = Suppress(evt)
                 /\ calls' = Append(calls, Call("onNavigateDown", Undefined, rangeRect))
  /\ pc' = "done"
  /\ GeometryFrame

-----------------------------------------------------------------------------
(* Enter: newBlockAtSplit *)

\* A faulty split that keeps the text after the selection in the block
splitKeepsTextAfter(m) ==
  [content |-> m.textAfterSelection, preventRerender |-> FALSE,
   caller |-> "newBlockAtSplit"]

\* this.setBlockContentFromInput(textBeforeSelection, false);
splitCall(m) ==
  [content |-> m.textBeforeSelection, preventRerender |-> FALSE,
   caller |-> "newBlockAtSplit"]

newBlockAtSplit ==
  /\ pc = "newBlockAtSplit"
  /\ \E sel \in Selections(element) :
       /\ selection' = sel
       /\ split' = getManipulation(element, sel)
       /\ call' = splitCall(getManipulation(element, sel))
  /\ pc' = "sbc:guard"
  /\ UNCHANGED <<isFirefox, block, element, isUpdatingBlockContent, evt,
                 clientRects, currentRangeRect, calls, renderCalls, domWrites>>

\* this.newBlockInsertedLocally(textAfterSelection);
newBlockInsertedLocally ==
  /\ pc = "nbs:insert"
  /\ calls' = Append(calls, Notify("newBlockInsertedLocally", split.textAfterSelection))
  /\ pc' = "done"
  /\ UNCHANGED <<isFirefox, block, element, isUpdatingBlockContent, evt,
                 selection, split, clientRects, currentRangeRect, call,
                 renderCalls, domWrites>>

-----------------------------------------------------------------------------
(* setBlockContentFromInput(content, preventRerender), statement by statement *)

SbcFrame ==
  UNCHANGED <<isFirefox, evt, selection, split, clientRects, currentRangeRect, call>>

\* A faulty entry that never takes the guard
guardNeverSet(guard, preventRerender) == guard

\* A faulty entry that takes the guard whatever preventRerender says
guardAlwaysSet(guard, preventRerender) == TRUE

\* if (preventRerender) { this.set('isUpdatingBlockContent', true); }
guardAfterEntry(guard, preventRerender) ==
  IF preventRerender THEN TRUE ELSE guard

sbcSetGuard ==
  /\ pc = "sbc:guard"
  /\ isUpdatingBlockContent' =
       guardAfterEntry(isUpdatingBlockContent, call.preventRerender)
  /\ pc' = "sbc:lastContent"
  /\ SbcFrame
  /\ UNCHANGED <<block, element, calls, renderCalls, domWrites>>

\* A faulty snapshot that leaves lastContent as it was
snapshotForgotten(b) == b

\* this.set('block.lastContent', this.get('block.content'));
snapshotContent(b) == [b EXCEPT !.lastContent = b.content]

sbcSetLastContent ==
  /\ pc = "sbc:lastContent"
  /\ block' = snapshotContent(block)
  /\ pc' = "sbc:content"
  /\ SbcFrame
  /\ UNCHANGED <<isUpdatingBlockContent, element, calls, renderCalls, domWrites>>

\* this.set('block.content', content);
sbcSetContent ==
  /\ pc = "sbc:content"
  /\ setContent(call.content)
  /\ pc' = "sbc:unguard"
  /\ SbcFrame
  /\ UNCHANGED <<isUpdatingBlockContent, calls>>

\* A faulty exit that never releases the guard
guardNeverCleared(guard, preventRerender) == guard

\* if (preventRerender) { this.set('isUpdatingBlockContent', false); }
guardAfterWrite(guard, preventRerender) ==
  IF preventRerender THEN FALSE ELSE guard

sbcClearGuard ==
  /\ pc = "sbc:unguard"
  /\ isUpdatingBlockContent' =
       guardAfterWrite(isUpdatingBlockContent, call.preventRerender)
  /\ pc' = "sbc:notify"
  /\ SbcFrame
  /\ UNCHANGED <<block, element, calls, renderCalls, domWrites>>

\* What the host does with block.content inside blockContentUpdatedLocally:
\* nothing, or a write of its own
HostWrites == {Undefined} \cup Strings

\* A faulty split that forgets to ask the host for the new block
returnsToHandlerEnd(caller) == "done"

\* Where setBlockContentFromInput returns to
returnTo(caller) == IF caller = "newBlockAtSplit" THEN "nbs:insert" ELSE "done"

\* this.blockContentUpdatedLocally();
sbcNotify ==
  /\ pc = "sbc:notify"
  /\ calls' = Append(calls, Notify("blockContentUpdatedLocally", Undefined))
  /\ \E w \in HostWrites :
       IF w = Undefined
       THEN UNCHANGED <<block, element, renderCalls, domWrites>>
       ELSE setContent(w)
  /\ pc' = returnTo(call.caller)
  /\ SbcFrame
  /\ UNCHANGED isUpdatingBlockContent

-----------------------------------------------------------------------------
(* The handler returns to the browser's event loop: the event object and what
   the handler read are gone, the block, the element and the guard stay *)

handlerReturns ==
  /\ pc = "done"
  /\ BeginEvent(NoEvent)
  /\ call' = NoCall
  /\ pc' = "idle"
  /\ UNCHANGED <<isFirefox, block, element, isUpdatingBlockContent>>

-----------------------------------------------------------------------------
(* The specification *)

Next ==
  \/ didInsertElement
  \/ userEdit
  \/ externalWriteBegins
  \/ externalWrite
  \/ input
  \/ keyDown
  \/ paste
  \/ backspace
  \/ navigateLeft
  \/ navigateRight
  \/ navigateUp
  \/ navigateDown
  \/ newBlockAtSplit
  \/ newBlockInsertedLocally
  \/ sbcSetGuard
  \/ sbcSetLastContent
  \/ sbcSetContent
  \/ sbcClearGuard
  \/ sbcNotify
  \/ handlerReturns

Spec == Init /\ [][Next]_vars

-----------------------------------------------------------------------------
(* What the claims speak of *)

\* The handler of a keydown that fell into case h of the switch has finished
KeydownDone(h) == pc = "done" /\ evt.type = "keydown" /\ evt.handler = h

\* The handler left the event to the browser and called nothing
LeftToBrowser ==
  ~evt.defaultPrevented /\ ~evt.propagationStopped /\ calls = <<>>

\* The handler suppressed the default action and made exactly the call c
OnlyCalled(c) == evt.defaultPrevented /\ calls = <<c>>

\* The lines of the element the arrow handlers measure from
firstLineRect == clientRects[1]

lastLineRect == clientRects[Len(clientRects)]

-----------------------------------------------------------------------------
(* C1: a Backspace keydown invokes onBlockDeletedLocally, with the block and
   textAfterSelection, exactly when the selection is collapsed and
   textBeforeSelection is empty; in every other backspace state it invokes
   nothing and leaves the default action alone. *)
C1_BackspaceDeletesOnlyAtStart ==
  KeydownDone("backspace") =>
    IF isCollapsed(selection) /\ split.textBeforeSelection = <<>>
    THEN OnlyCalled(Call("onBlockDeletedLocally", split.textAfterSelection, NoRect))
    ELSE LeftToBrowser

C1_Witness ==
  /\ KeydownDone("backspace")
  /\ isCollapsed(selection)
  /\ split.textBeforeSelection = <<>>
  /\ split.textAfterSelection # <<>>
  /\ calls # <<>>
  /\ calls[1].name = "onBlockDeletedLocally"

(* C2: an ArrowLeft keydown with text before the selection invokes nothing and
   leaves the default action alone; with no text before the selection it
   invokes onNavigateLeft exactly once, with the block, and suppresses the
   default action. *)
C2_ArrowLeftLeavesAtStart ==
  KeydownDone("navigateLeft") =>
    IF split.textBeforeSelection # <<>>
    THEN LeftToBrowser
    ELSE OnlyCalled(Call("onNavigateLeft", Undefined, NoRect))

C2_Witness ==
  /\ KeydownDone("navigateLeft")
  /\ split.textBeforeSelection = <<>>
  /\ split.textAfterSelection # <<>>
  /\ Len(calls) = 1
  /\ calls[1].name = "onNavigateLeft"
  /\ evt.defaultPrevented

(* C3: an ArrowRight keydown with text after the selection does nothing (no
   callback, default not suppressed); otherwise it suppresses the default
   action and invokes onNavigateRight exactly once, with the block. *)
C3_ArrowRightLeavesAtEnd ==
  KeydownDone("navigateRight") =>
    IF split.textAfterSelection # <<>>
    THEN LeftToBrowser
    ELSE OnlyCalled(Call("onNavigateRight", Undefined, NoRect))

C3_Witness ==
  /\ KeydownDone("navigateRight")
  /\ split.textAfterSelection = <<>>
  /\ split.textBeforeSelection # <<>>
  /\ Len(calls) = 1
  /\ calls[1].name = "onNavigateRight"
  /\ evt.defaultPrevented

(* C4: an ArrowUp (ArrowDown) keydown with a selection rectangle navigates
   across blocks, calling onNavigateUp (onNavigateDown) once with the block and
   that rectangle and suppressing the default action, exactly when
   selectionRect.top - firstLineRect.top (lastLineRect.bottom -
   selectionRect.bottom) is at most 10: a distance of 10 or a negative one
   navigates, a distance of 11 does not. *)
C4_VerticalThreshold ==
  /\ (KeydownDone("navigateUp") /\ currentRangeRect.present) =>
       IF currentRangeRect.top - firstLineRect.top <= 10
       THEN OnlyCalled(Call("onNavigateUp", Undefined, currentRangeRect))
       ELSE LeftToBrowser
  /\ (KeydownDone("navigateDown") /\ currentRangeRect.present) =>
       IF lastLineRect.bottom - currentRangeRect.bottom <= 10
       THEN OnlyCalled(Call("onNavigateDown", Undefined, currentRangeRect))
       ELSE LeftToBrowser

C4_Witness ==
  /\ KeydownDone("navigateUp")
  /\ currentRangeRect.present
  /\ currentRangeRect.top - firstLineRect.top = 10
  /\ Len(calls) = 1
  /\ calls[1].name = "onNavigateUp"
  /\ evt.defaultPrevented


\* The event is an Enter keydown without Shift
EnterSplit == evt.type = "keydown" /\ evt.handler = "Enter" /\ ~evt.shiftKey

BeforeContentWrite ==
  pc \in {"newBlockAtSplit", "sbc:guard", "sbc:lastContent", "sbc:content"}

AfterContentWrite == pc \in {"sbc:unguard", "sbc:notify"}

ContentUpdated == Notify("blockContentUpdatedLocally", Undefined)

(* C5: an Enter keydown without Shift, whatever the selection, suppresses the
   default action, makes textBeforeSelection the block's content and calls
   newBlockInsertedLocally exactly once, with textAfterSelection; both texts
   come from the one TextSplit taken of the element before the content write. *)
C5_EnterSplits ==
  EnterSplit =>
    /\ evt.defaultPrevented
    /\ (BeforeContentWrite /\ pc # "newBlockAtSplit") =>
         /\ split = getManipulation(element, selection)
         /\ call.content = split.textBeforeSelection
    /\ AfterContentWrite => block.content = split.textBeforeSelection
    /\ pc # "done" =>
         \A i \in DOMAIN calls : calls[i].name # "newBlockInsertedLocally"
    /\ pc = "done" =>
         calls = <<ContentUpdated,
                   Notify("newBlockInsertedLocally", split.textAfterSelection)>>

C5_Witness ==
  /\ EnterSplit
  /\ pc = "done"
  /\ split.textBeforeSelection # <<>>
  /\ split.textAfterSelection # <<>>
  /\ block.lastContent # split.textBeforeSelection
  /\ Len(calls) = 2
  /\ calls[2] = Notify("newBlockInsertedLocally", split.textAfterSelection)

(* C6, as the claim states it: during an Enter split renderBlockContent makes
   no DOM write for the block before newBlockInsertedLocally is called, even
   when textBeforeSelection differs from the previous content. *)
C6_NoRenderDuringSplit ==
  (EnterSplit /\ pc # "done") => domWrites = 0

(* C6, amended: during an Enter split the content write renders the block's
   element exactly when textBeforeSelection differs from the previous content:
   renderBlockContent then writes the element once, to textBeforeSelection (to
   the placeholder when that is empty); when the two are equal it writes
   nothing, and nothing is written before the content write. *)
C6_SplitRendersWhenContentChanges ==
  EnterSplit =>
    /\ BeforeContentWrite => domWrites = 0
    /\ AfterContentWrite =>
         IF block.lastContent # split.textBeforeSelection
         THEN /\ domWrites = 1
              /\ element = IF split.textBeforeSelection = <<>> THEN <<BR>>
                           ELSE <<TextNode(split.textBeforeSelection)>>
         ELSE domWrites = 0

C6_Witness ==
  /\ EnterSplit
  /\ pc = "sbc:notify"
  /\ split.textAfterSelection # <<>>
  /\ block.lastContent # split.textBeforeSelection
  /\ domWrites = 1

(* C7: an Enter keydown with Shift held does not suppress the default action,
   does not stop propagation, invokes no callback of the host, and leaves
   block.content and block.lastContent as they were. *)
C7_ShiftEnterDoesNothing ==
  [][(pc' = "done" /\ evt'.type = "keydown" /\ evt'.handler = "Enter"
        /\ evt'.shiftKey)
       => /\ pc = "idle"
          /\ ~evt'.defaultPrevented
          /\ ~evt'.propagationStopped
          /\ calls' = <<>>
          /\ block' = block]_vars

C7_Witness ==
  /\ KeydownDone("Enter")
  /\ evt.shiftKey
  /\ evt.key = "Enter"
  /\ block.content # <<>>
  /\ LeftToBrowser

(* C8: when setBlockContentFromInput is called with preventRerender = true and
   the new content differs from the old, the observer that fires during the
   write finds the guard held and writes the element zero times. *)
C8_GuardedWriteDoesNotRender ==
  [][(pc = "sbc:content" /\ call.preventRerender /\ block.content # call.content)
       => /\ isUpdatingBlockContent
          /\ block'.content = call.content
          /\ renderCalls' = renderCalls + 1
          /\ domWrites' = domWrites
          /\ domWrites' = 0
          /\ element' = element]_vars

C8_Witness ==
  /\ pc = "sbc:unguard"
  /\ call.preventRerender
  /\ block.lastContent # block.content
  /\ element # Rendered(block.content)
  /\ renderCalls = 1
  /\ domWrites = 0

\* The handler of an input or keydown event has finished
HandledEventDone == pc = "done" /\ evt.type \in {"input", "keydown"}

(* C9, as the claim states it: every handled input or keydown event either
   defers to the default behaviour and invokes no callback, or invokes exactly
   one callback of the host in all, the content-updated notification and
   newBlockInsertedLocally counted among them. *)
C9_OneCallbackAtMost ==
  HandledEventDone =>
    \/ ~evt.defaultPrevented /\ calls = <<>>
    \/ Len(calls) = 1

(* C9, amended: every handled input or keydown event either defers to the
   default behaviour and invokes no callback, or invokes exactly one callback
   of the host in all, except an Enter keydown without Shift, which invokes
   exactly two: the content-updated notification and then
   newBlockInsertedLocally. *)
C9_OneCallbackExceptEnter ==
  HandledEventDone =>
    IF EnterSplit
    THEN /\ Len(calls) = 2
         /\ calls[1].name = "blockContentUpdatedLocally"
         /\ calls[2].name = "newBlockInsertedLocally"
    ELSE \/ ~evt.defaultPrevented /\ calls = <<>>
         \/ Len(calls) = 1

C9_Witness ==
  /\ HandledEventDone
  /\ EnterSplit
  /\ Len(calls) = 2

\* The callbacks by which a key handler commits to an action of its own
StructuralCallbacks ==
  {"onNavigateLeft", "onNavigateRight", "onNavigateUp", "onNavigateDown",
   "onBlockDeletedLocally", "newBlockInsertedLocally"}

(* C10: the default action of a keydown or paste event is prevented exactly
   when the handler commits to an action of its own in that event (a navigate,
   delete or insert callback for a key, the plain-text insertion for a paste);
   a no-op branch, or a key outside the dispatch table, never prevents it. *)
C10_DefaultPreventedIffCommitted ==
  /\ (pc = "done" /\ evt.type = "keydown") =>
       /\ evt.defaultPrevented <=>
            \E i \in DOMAIN calls : calls[i].name \in StructuralCallbacks
       /\ evt.handler = "none" => ~evt.defaultPrevented
  /\ (pc \in {"done", "inputPending"} /\ evt.type = "paste") =>
       (evt.defaultPrevented <=> evt.inserted # Undefined)

C10_Witness ==
  /\ KeydownDone("backspace")
  /\ ~evt.defaultPrevented
  /\ ~isCollapsed(selection)
  /\ split.textBeforeSelection = <<>>


(* C11: an ArrowUp or ArrowDown keydown that finds no selection rectangle takes
   the no-navigation branch: it invokes neither onNavigateUp nor
   onNavigateDown, does not suppress the default action, and does not end in a
   fault. *)
C11_AbsentRectIsNoNavigation ==
  ((KeydownDone("navigateUp") \/ KeydownDone("navigateDown"))
     /\ ~currentRangeRect.present)
    => (LeftToBrowser /\ ~evt.threw)

\* No handler is running and no input event is owed for an edit of the element
Quiescent == pc \in {"idle", "done"}

\* The statements of setBlockContentFromInput between taking the guard and
\* releasing it
InsideGuardedWrite ==
  call.preventRerender /\ pc \in {"sbc:lastContent", "sbc:content", "sbc:unguard"}

(* C12: the guard isUpdatingBlockContent is false whenever no handler runs,
   whatever input, keydown, paste and external writes came before; it is true
   only inside setBlockContentFromInput called with preventRerender = true,
   from the statement that takes it to the one that releases it after the
   write of block.content, and there it is always true. *)
C12_GuardOnlyInsideGuardedWrite ==
  /\ isUpdatingBlockContent <=> InsideGuardedWrite
  /\ (Quiescent \/ pc \in {"unmounted", "inputPending"}) => ~isUpdatingBlockContent

C12_Witness ==
  /\ pc = "sbc:content"
  /\ isUpdatingBlockContent
  /\ call.caller = "input"
  /\ block.content # call.content

\* The text the block shows: its content, nothing when the content is absent
ShownContent == IF Truthy(block.content) THEN block.content ELSE <<>>

(* C13, as the claim states it: in every quiescent state after mount the
   element's text as getElementText reads it equals block.content, empty or
   absent content being the placeholder line break. *)
C13_ElementTextIsContent ==
  Quiescent => getElementText(element, isFirefox) = ShownContent

(* C13, amended: in every quiescent state after mount the element's text as
   getElementText reads it equals block.content, empty or absent content being
   the placeholder line break, except that on Firefox a content that ends in a
   newline may be read back without that one newline. *)
C13_ElementTextIsContentUpToNewline ==
  Quiescent =>
    \/ getElementText(element, isFirefox) = ShownContent
    \/ /\ isFirefox
       /\ Len(ShownContent) > 0
       /\ ShownContent[Len(ShownContent)] = "\n"
       /\ getElementText(element, isFirefox) =
            SubSeq(ShownContent, 1, Len(ShownContent) - 1)

C13_Witness ==
  /\ pc = "done"
  /\ evt.type = "externalWrite"
  /\ isFirefox
  /\ block.content = <<"a", "\n">>
  /\ element = <<TextNode(block.content)>>
  /\ getElementText(element, isFirefox) = <<"a">>


\* The statements of setBlockContentFromInput
InsideSetBlockContent ==
  pc \in {"sbc:guard", "sbc:lastContent", "sbc:content", "sbc:unguard",
          "sbc:notify"}

(* C14: every call setBlockContentFromInput(c, p), for either p, sets
   block.lastContent to the content the block had before the call, sets
   block.content to c, and invokes the host's content-updated notification
   exactly once, also when c equals the previous content. *)
C14_SetBlockContentContract ==
  [][/\ pc = "sbc:guard" => (block' = block /\ calls' = calls)
     /\ pc = "sbc:lastContent" =>
          /\ block' = [content |-> block.content, lastContent |-> block.content]
          /\ calls' = calls
     /\ pc = "sbc:content" =>
          /\ block' = [content |-> call.content, lastContent |-> block.lastContent]
          /\ calls' = calls
     /\ pc = "sbc:unguard" => (block' = block /\ calls' = calls)
     /\ pc = "sbc:notify" =>
          /\ block.content = call.content
          /\ block'.lastContent = block.lastContent
          /\ calls' = Append(calls, ContentUpdated)
          /\ \A i \in DOMAIN calls : calls[i] # ContentUpdated
          /\ pc' \in {"done", "nbs:insert"}
     /\ (InsideSetBlockContent /\ pc' # pc) =>
          <<pc, pc'>> \in {<<"sbc:guard", "sbc:lastContent">>,
                           <<"sbc:lastContent", "sbc:content">>,
                           <<"sbc:content", "sbc:unguard">>,
                           <<"sbc:unguard", "sbc:notify">>,
                           <<"sbc:notify", "done">>,
                           <<"sbc:notify", "nbs:insert">>}]_vars

C14_Witness ==
  /\ pc = "done"
  /\ call.caller = "input"
  /\ block.content = call.content
  /\ block.lastContent = block.content
  /\ block.content # <<>>
  /\ calls = <<ContentUpdated>>
  /\ renderCalls = 0

(* C15: when setBlockContentFromInput is called with preventRerender = false
   (the Enter split) and the content changes, the guard is never taken and
   renderBlockContent runs during the write, rewriting the element to the new
   content, or to the placeholder when that is empty. *)
C15_UnguardedWriteRenders ==
  [][/\ (InsideSetBlockContent /\ ~call.preventRerender) =>
          (~isUpdatingBlockContent /\ ~isUpdatingBlockContent'
             /\ call.caller = "newBlockAtSplit")
     /\ (pc = "sbc:content" /\ ~call.preventRerender
           /\ block.content # call.content) =>
          /\ renderCalls' = renderCalls + 1
          /\ domWrites' = domWrites + 1
          /\ element' = IF call.content = <<>> THEN <<BR>>
                        ELSE <<TextNode(call.content)>>]_vars

C15_Witness ==
  /\ pc = "sbc:unguard"
  /\ call.caller = "newBlockAtSplit"
  /\ ~call.preventRerender
  /\ block.lastContent # block.content
  /\ block.content # <<>>
  /\ split.textAfterSelection # <<>>
  /\ domWrites = 1
  /\ element = <<TextNode(block.content)>>

(* C16: an input event makes no structural decision: it sets block.content to
   the element's text with re-render suppression on, invokes the content-updated
   notification and no navigate, delete or insert callback, never suppresses
   the default action, and never writes the DOM. *)
C16_InputOnlySynchronizes ==
  evt.type = "input" =>
    /\ ~evt.defaultPrevented /\ ~evt.propagationStopped
    /\ call.caller = "input" /\ call.preventRerender
    /\ \A i \in DOMAIN calls : calls[i] = ContentUpdated
    /\ (InsideSetBlockContent) =>
         /\ call.content = getElementText(element, isFirefox)
         /\ domWrites = 0
         /\ calls = <<>>
    /\ pc \in {"sbc:unguard", "sbc:notify"} => block.content = call.content
    /\ pc = "done" => calls = <<ContentUpdated>>

C16_Witness ==
  /\ evt.type = "input"
  /\ pc = "sbc:notify"
  /\ block.content # block.lastContent
  /\ block.content = <<"a">>
  /\ element = <<TextNode(<<"a">>), BR>>
  /\ domWrites = 0


\* The logical keys of the dispatch table: name, legacy key code, handler
LogicalKeys ==
  {<<"ArrowLeft", 37, "navigateLeft">>, <<"ArrowUp", 38, "navigateUp">>,
   <<"ArrowRight", 39, "navigateRight">>, <<"ArrowDown", 40, "navigateDown">>,
   <<"Backspace", 8, "backspace">>, <<"Enter", 13, "Enter">>}

(* C17: a keydown is dispatched to the handler of a logical key (ArrowLeft, Up,
   Right, Down, Backspace, Enter) whenever its key name or its legacy key code
   (37, 38, 39, 40, 8, 13) identifies that key, whether the other of the two is
   present, absent or names nothing in the table. *)
C17_DispatchedByNameOrCode ==
  evt.type = "keydown" =>
    \A k \in LogicalKeys :
      (evt.key = k[1] \/ evt.keyCode = k[2]) => evt.handler = k[3]

(* C18: the host's content-updated notification is invoked only while the guard
   isUpdatingBlockContent is false, after the guarded write has completed, so
   a write of block.content the host makes inside the notification is not
   suppressed: it is rendered. *)
C18_NotificationOutsideGuard ==
  [][(\E i \in DOMAIN calls' : i > Len(calls) /\ calls'[i] = ContentUpdated) =>
       /\ pc = "sbc:notify"
       /\ ~isUpdatingBlockContent
       /\ block.content = call.content
       /\ block'.content # block.content =>
            /\ domWrites' = domWrites + 1
            /\ element' = IF Truthy(block'.content)
                          THEN <<TextNode(block'.content)>> ELSE <<BR>>]_vars

C18_Witness ==
  /\ pc = "done"
  /\ evt.type = "input"
  /\ calls = <<ContentUpdated>>
  /\ block.content # call.content
  /\ block.content # <<>>
  /\ domWrites = 1
  /\ element = <<TextNode(block.content)>>

(* C19: on an Enter keydown without Shift the steps come in this order: default
   suppressed, TextSplit taken, block.lastContent and block.content written,
   content-updated notification invoked, and only then newBlockInsertedLocally;
   the host is never asked for the new block before the block's content has
   been cut to textBeforeSelection. *)
C19_EnterStepsInOrder ==
  [][EnterSplit' =>
       /\ evt'.defaultPrevented
       /\ pc' = "newBlockAtSplit" =>
            (pc = "idle" /\ split' = NoSplit /\ calls' = <<>> /\ block' = block)
       /\ pc' = "sbc:guard" =>
            /\ pc = "newBlockAtSplit"
            /\ split' = getManipulation(element, selection')
            /\ block' = block /\ calls' = <<>>
       /\ pc' = "sbc:lastContent" =>
            (pc = "sbc:guard" /\ block' = block /\ calls' = <<>>)
       /\ pc' = "sbc:content" =>
            /\ pc = "sbc:lastContent"
            /\ block'.lastContent = block.content
            /\ block'.content = block.content
            /\ calls' = <<>>
       /\ pc' = "sbc:unguard" =>
            /\ pc = "sbc:content"
            /\ block'.content = split.textBeforeSelection
            /\ calls' = <<>>
       /\ pc' = "sbc:notify" =>
            (pc = "sbc:unguard" /\ block' = block /\ calls' = <<>>)
       /\ pc' = "nbs:insert" =>
            /\ pc = "sbc:notify"
            /\ block.content = split.textBeforeSelection
            /\ calls' = <<ContentUpdated>>
       /\ pc' = "done" =>
            /\ pc = "nbs:insert"
            /\ calls = <<ContentUpdated>>
            /\ calls' = <<ContentUpdated,
                          Notify("newBlockInsertedLocally", split.textAfterSelection)>>
            /\ block' = block
       /\ split # NoSplit => split' = split]_vars

C19_Witness ==
  /\ EnterSplit
  /\ pc = "nbs:insert"
  /\ calls = <<ContentUpdated>>
  /\ block.content = split.textBeforeSelection
  /\ block.lastContent # block.content
  /\ split.textAfterSelection # <<>>
  /\ domWrites = 1

(* C20: every keydown other than an unshifted Enter (the arrow keys, Backspace,
   Shift+Enter, any key outside the dispatch table), on either branch of its
   handler, leaves block.content, block.lastContent and
   isUpdatingBlockContent unchanged and never invokes the content-updated
   notification or newBlockInsertedLocally. *)
C20_OtherKeysLeaveBlockAlone ==
  [][(evt'.type = "keydown" /\ ~EnterSplit') =>
       /\ block' = block
       /\ isUpdatingBlockContent' = isUpdatingBlockContent
       /\ \A i \in DOMAIN calls' :
            calls'[i].name \notin {"blockContentUpdatedLocally",
                                   "newBlockInsertedLocally"}]_vars

C20_Witness ==
  /\ KeydownDone("backspace")
  /\ evt.defaultPrevented
  /\ calls # <<>>
  /\ block.content # <<>>
  /\ block.lastContent # block.content
  /\ ~isUpdatingBlockContent

====
